---- MODULE Spec2Model ----
(***************************************************************************)
(* The document retrieval core of esi-advisor (server/rag.py): RAGManager  *)
(* over a remote `documents` table (server/setup_rag.py) and a remote      *)
(* embedding endpoint.  Every caller of the manager is a process; a call   *)
(* advances one remote round trip at a time, so calls of different         *)
(* processes interleave between round trips.                               *)
(***************************************************************************)
EXTENDS Integers, Sequences, FiniteSets, TLC

(* ------------------------------ bounds -------------------------------- *)
\* rows the table ever receives (ids handed out by gen_random_uuid)
MaxDocs == 2
\* largest `limit` a search passes
MaxLimit == 2

\* the callers of the manager: the race on the dedup check is between two calls
Procs == { 1, 2 }

\* threads calling get_rag_manager
MaxThreads == 2
Threads == 1..MaxThreads

\* tokens a language model produces during one agent run, and the calls of
\* the language model the run makes
MaxTokens == 2
MaxLlmCalls == 2

(* --------------------------- Python values ---------------------------- *)
\* Optional[T]: None is the empty tuple, a present value x is <<x>>
None == <<>>
Some(x) == <<x>>

\* str: a tuple of characters
Contents == { <<"a">>, <<"a", "b">> }
SourceUrls == { None, Some(<<"b">>) }
\* Dict[str, Any]: a set of <<key, value>> pairs.  The other arguments of a
\* store call, as the callers combine them
DefaultOptions == [metadata |-> None, source_type |-> "text", chunk_index |-> 0]
StoreOptions ==
    { DefaultOptions,
      [metadata |-> Some({<<"test", TRUE>>}), source_type |-> "webpage",
       chunk_index |-> 1] }
Queries == { <<"a">> }
\* similarity scores are held in hundredths: 0.7 is 70
DefaultThreshold == 70
Thresholds == { DefaultThreshold, 80 }
\* the offsets list_documents is called with: its default and the second row
ListOffsets == { 0, 1 }

SourceTypeFilters == { None, Some("text") }
DocumentIds == 1..MaxDocs

\* outcome of a call: a returned value or a raised exception
Return(v) == [kind |-> "return", value |-> v]
Raise(e) == [kind |-> "raise", exc |-> e]
Pending == [kind |-> "pending"]
NoCall == [op |-> "none"]

(* ------------------------- embedding endpoint ------------------------- *)
\* the vector the embedding model gives a text (width 2 stands for 3072)
EmbeddingModel(text) ==
    IF text = <<"a">> THEN <<5, 0>>
    ELSE IF text = <<"a", "b">> THEN <<4, 3>>
    ELSE IF text = <<"b">> THEN <<0, 5>>
    ELSE <<-5, 0>>

ZeroVector == <<0, 0>>

\* a local `embedding` that has not been assigned
NoEmbedding == <<>>

\* what genai.embed_content can do: answer with the vector, answer without
\* the 'embedding' field, or fail
GeminiResponses == { "embedding", "malformed", "error" }

\* a create_embedding that hides a failure behind a zero vector
CreateEmbeddingZeroFallback(text, response) ==
    IF response = "embedding" THEN Return(EmbeddingModel(text))
    ELSE Return(ZeroVector)

\* RAGManager.create_embedding
CreateEmbedding(text, response) ==
    IF response = "embedding" THEN Return(EmbeddingModel(text))
    ELSE IF response = "malformed" THEN Raise("ValueError")
    ELSE Raise("EmbeddingApiError")

(* ------------------------------ hashing ------------------------------- *)
\* hashlib.sha256(...).hexdigest(): injective on the strings of the model, so
\* the digest of s is s under a tag
Sha256(s) == <<"sha256", s>>

\* `source_url or ""`
OrEmpty(source_url) == IF source_url = None THEN <<>> ELSE source_url[1]

\* a fingerprint that puts a separator between content and source_url
GenerateDocumentHashSeparated(content, source_url) ==
    Sha256(content \o <<"|">> \o source_url)

\* a fingerprint that forgets the content
GenerateDocumentHashUrlOnly(content, source_url) ==
    Sha256(source_url)

\* RAGManager._generate_document_hash
GenerateDocumentHash(content, source_url) ==
    Sha256(content \o source_url)

(* ------------------------- the documents table ------------------------ *)
\* document_hash VARCHAR(64) UNIQUE, declared without the constraint
UniqueViolationUnenforced(rows, document_hash) == FALSE

\* document_hash VARCHAR(64) UNIQUE: an insert of a hash the table holds is
\* rejected
UniqueViolation(rows, document_hash) ==
    \E d \in rows : d.document_hash = document_hash

\* a dedup lookup that filters on a column no row matches
SelectIdByHashWrongColumn(rows, document_hash) == <<>>

\* table('documents').select('id').eq('document_hash', h).execute().data
SelectIdByHash(rows, document_hash) ==
    LET hit == { d \in rows : d.document_hash = document_hash }
    IN  IF hit = {} THEN <<>>
        ELSE LET d == CHOOSE d \in hit : \A e \in hit : d.id <= e.id
             IN  << [id |-> d.id] >>

\* table('documents').select('*').eq('id', document_id).execute().data
SelectById(rows, document_id) ==
    LET hit == { d \in rows : d.id = document_id }
    IN  IF hit = {} THEN <<>> ELSE << CHOOSE d \in hit : TRUE >>

\* `if existing.data:` taken as never true
DedupHitNever(data) == FALSE

\* `if existing.data:` -- a non-empty list is truthy
DedupHit(data) == data # <<>>

\* `if result.data:` of search_documents and get_document_by_id
HasData(data) == data # <<>>

\* delete_document answering True whatever the store deleted
DeleteResultAlwaysTrue(data) == TRUE

\* `return bool(result.data)`: the deleted rows come back as data
DeleteResult(data) == data # <<>>

\* `x if x else {}` and `metadata or {}`: None and the empty mapping both
\* become the empty mapping
OrEmptyMapping(metadata) ==
    IF metadata = None \/ metadata = Some({}) THEN {} ELSE metadata[1]

(* ---------------------------- similarity ------------------------------ *)
Dot(u, v) == u[1] * v[1] + u[2] * v[2]

Norm(u) == CHOOSE r \in 0..Dot(u, u) : r * r <= Dot(u, u) /\ Dot(u, u) < (r + 1) * (r + 1)

\* 1 - (embedding <=> query_embedding), cosine similarity in hundredths
Similarity(u, v) ==
    LET n == Norm(u) * Norm(v)
    IN  IF n = 0 THEN 0 ELSE (Dot(u, v) * 100) \div n

\* one row of the rpc's answer: the selected columns and the score
MatchRow(d, query_embedding) ==
    [id |-> d.id,
     content |-> d.content,
     metadata |-> d.metadata,
     source_type |-> d.source_type,
     source_url |-> d.source_url,
     similarity |-> Similarity(d.embedding, query_embedding)]

\* the sequences match_documents may answer: the rows scoring strictly above
\* match_threshold, best first, cut to match_count; rows of equal score come
\* in either order
MatchDocuments(rows, query_embedding, match_threshold, match_count) ==
    LET sim(d) == Similarity(d.embedding, query_embedding)
        hit == { d \in rows : sim(d) > match_threshold }
        n == IF Cardinality(hit) < match_count THEN Cardinality(hit)
             ELSE match_count
        picks == { s \in [1..n -> hit] :
            /\ \A i, j \in 1..n : i < j =>
                  s[i] # s[j] /\ sim(s[i]) >= sim(s[j])
            /\ \A d \in hit : (\A i \in 1..n : s[i] # d) =>
                  \A i \in 1..n : sim(s[i]) >= sim(d) }
    IN  { [i \in 1..n |-> MatchRow(s[i], query_embedding)] : s \in picks }

\* the arguments of the rpc, with the count left at its default
RpcParamsDefaultCount(query_embedding, threshold, limit) ==
    [query_embedding |-> query_embedding,
     match_threshold |-> threshold,
     match_count |-> MaxLimit + 1]

\* the arguments search_documents hands to rpc('match_documents', ...)
RpcParams(query_embedding, threshold, limit) ==
    [query_embedding |-> query_embedding,
     match_threshold |-> threshold,
     match_count |-> limit]

\* the result entry search_documents builds from one returned row
SearchResultOf(row) ==
    [id |-> row.id,
     content |-> row.content,
     metadata |-> OrEmptyMapping(row.metadata),
     source_type |-> row.source_type,
     source_url |-> row.source_url,
     similarity |-> row.similarity]

(* ------------------------------- state -------------------------------- *)
VARIABLES
    docs,           \* the rows of the documents table
    nextId,         \* the id the next inserted row receives
    pc,             \* per process: where its call stands
    call,           \* per process: the call in hand, or the last one made
    result,         \* per process: what that call returned or raised
    prev,           \* per process: the call before it and its outcome
    document_hash,  \* per process: store_document's document_hash
    existing,       \* per process: store_document's existing.data
    embedding,      \* per process: the embedding create_embedding returned
    response,       \* per process: what the embedding endpoint answered it
    issued,         \* per process: requests the call in hand has sent
    deleted         \* the ids delete_document has answered True for

\* the state of the RAG manager and its callers
ragVars == << docs, nextId, pc, call, result, prev, document_hash, existing,
              embedding, response, issued, deleted >>

VARIABLES
    text,           \* _split_text_into_chunks: its text argument
    max_chunk_size, \* its max_chunk_size argument
    overlap,        \* its overlap argument
    start,          \* its local start
    chunks,         \* its local chunks
    at,             \* where the call stands: idle, while, body or done
    returned        \* what the call returned

\* the state of a _split_text_into_chunks call
chunkVars == << text, max_chunk_size, overlap, start, chunks, at, returned >>

VARIABLES
    job,            \* the DocumentIngester call in hand
    stage,          \* where it stands: idle, loop, await or done
    position,       \* the position of its loop in chunks or in data (i)
    doc_ids,        \* its local doc_ids
    requests,       \* the store_document calls it has made, in order
    outcome,        \* what it returned or raised
    mapping,        \* the caller's metadata mapping, as it now reads
    files           \* the files it has written, as << path, content >> pairs

\* the state of a DocumentIngester call
ingestVars == << job, stage, position, doc_ids, requests, outcome, mapping,
                 files >>

VARIABLES
    removed         \* the rows delete_document has deleted

VARIABLES
    rag_manager,    \* the module's global _rag_manager
    instances,      \* how many times RAGManager() has been called
    where,          \* per thread: where its get_rag_manager call stands
    made,           \* per thread: the instance its RAGManager() call made
    got             \* per thread: what its last call returned

\* the state of the module global and of the callers of get_rag_manager
singletonVars == << rag_manager, instances, where, made, got >>

VARIABLES
    queue,          \* sse_generator's queue q
    count,          \* its handler's count
    gen,            \* where the generator stands
    events,         \* the events it has yielded, in order
    task,           \* the agent run: none, running, returned or raised
    llm,            \* whether a language-model call of the run is under way
    calls,          \* the language-model calls the run has ended
    produced        \* the tokens the language model has produced, in order

\* the state of a /chat/stream response
streamVars == << queue, count, gen, events, task, llm, calls, produced >>

\* what lies outside the RAG manager, the chunker and the ingester
otherVars == << removed, singletonVars, streamVars >>

\* what the RAG manager's calls leave alone, and the chunker's
restOfRag == << chunkVars, ingestVars, otherVars >>
restOfChunk == << ragVars, ingestVars, otherVars >>

vars == << ragVars, chunkVars, ingestVars, otherVars >>

NoRequests == [embed |-> 0, insert |-> 0, rpc |-> 0, delete |-> 0]

Init ==
    /\ docs = {}
    /\ nextId = 1
    /\ pc = [p \in Procs |-> "ready"]
    /\ call = [p \in Procs |-> NoCall]
    /\ result = [p \in Procs |-> Pending]
    /\ prev = [p \in Procs |-> [call |-> NoCall, result |-> Pending]]
    /\ document_hash = [p \in Procs |-> Sha256(<<>>)]
    /\ existing = [p \in Procs |-> <<>>]
    /\ embedding = [p \in Procs |-> NoEmbedding]
    /\ response = [p \in Procs |-> "none"]
    /\ issued = [p \in Procs |-> NoRequests]
    /\ deleted = {}
    /\ text = << >>
    /\ max_chunk_size = 0
    /\ overlap = 0
    /\ start = 0
    /\ chunks = << >>
    /\ at = "idle"
    /\ returned = Pending
    /\ job = NoCall
    /\ stage = "idle"
    /\ position = 0
    /\ doc_ids = << >>
    /\ requests = << >>
    /\ outcome = Pending
    /\ mapping = None
    /\ files = {}
    /\ removed = {}
    /\ rag_manager = None
    /\ instances = 0
    /\ where = [t \in Threads |-> "idle"]
    /\ made = [t \in Threads |-> None]
    /\ got = [t \in Threads |-> None]
    /\ queue = << >>
    /\ count = 0
    /\ gen = "idle"
    /\ events = << >>
    /\ task = "none"
    /\ llm = FALSE
    /\ calls = 0
    /\ produced = << >>

\* store_document calls that have yet to reach their insert
StoresInFlight == Cardinality({ p \in Procs : pc[p] \in {"embed", "insert"} })

\* a process takes up a new call: the one it had becomes its previous call
Begin(p, c) ==
    /\ pc[p] = "ready"
    /\ call' = [call EXCEPT ![p] = c]

(* --------------------------- store_document --------------------------- *)
\* store_document as an upsert: a dedup hit overwrites the row it found
StoreFindUpsert(p, content, metadata, source_type, source_url, chunk_index) ==
    LET h == GenerateDocumentHash(content, OrEmpty(source_url))
        data == SelectIdByHash(docs, h)
    IN  /\ DedupHit(data) \/ nextId + StoresInFlight <= MaxDocs
        /\ Begin(p, [op |-> "store", content |-> content,
                     metadata |-> metadata, source_type |-> source_type,
                     source_url |-> source_url, chunk_index |-> chunk_index])
        /\ document_hash' = [document_hash EXCEPT ![p] = h]
        /\ existing' = [existing EXCEPT ![p] = data]
        /\ issued' = [issued EXCEPT ![p] = NoRequests]
        /\ response' = [response EXCEPT ![p] = "none"]
        /\ IF DedupHit(data)
           THEN /\ result' = [result EXCEPT ![p] = Return(data[1].id)]
                /\ pc' = pc
                /\ docs' = { IF d.id = data[1].id
                             THEN [d EXCEPT !.metadata = Some(OrEmptyMapping(metadata)),
                                            !.source_type = source_type]
                             ELSE d : d \in docs }
           ELSE /\ result' = [result EXCEPT ![p] = Pending]
                /\ pc' = [pc EXCEPT ![p] = "embed"]
                /\ docs' = docs
        /\ UNCHANGED << nextId, embedding, deleted >>

\* entry, the fingerprint and the dedup lookup (first round trip)
StoreFind(p, content, metadata, source_type, source_url, chunk_index) ==
    LET h == GenerateDocumentHash(content, OrEmpty(source_url))
        data == SelectIdByHash(docs, h)
    IN  /\ DedupHit(data) \/ nextId + StoresInFlight <= MaxDocs
        /\ Begin(p, [op |-> "store", content |-> content,
                     metadata |-> metadata, source_type |-> source_type,
                     source_url |-> source_url, chunk_index |-> chunk_index])
        /\ document_hash' = [document_hash EXCEPT ![p] = h]
        /\ existing' = [existing EXCEPT ![p] = data]
        /\ issued' = [issued EXCEPT ![p] = NoRequests]
        /\ response' = [response EXCEPT ![p] = "none"]
        /\ IF DedupHit(data)
           THEN /\ result' = [result EXCEPT ![p] = Return(data[1].id)]
                /\ pc' = pc
           ELSE /\ result' = [result EXCEPT ![p] = Pending]
                /\ pc' = [pc EXCEPT ![p] = "embed"]
        /\ UNCHANGED << docs, nextId, embedding, deleted >>

\* `embedding = await self.create_embedding(content)`
StoreEmbed(p) ==
    /\ pc[p] = "embed"
    /\ \E answer \in GeminiResponses :
         LET r == CreateEmbedding(call[p].content, answer)
         IN  /\ response' = [response EXCEPT ![p] = answer]
             /\ issued' = [issued EXCEPT ![p].embed = @ + 1]
             /\ IF r.kind = "raise"
                THEN /\ result' = [result EXCEPT ![p] = r]
                     /\ pc' = [pc EXCEPT ![p] = "ready"]
                     /\ UNCHANGED embedding
                ELSE /\ embedding' = [embedding EXCEPT ![p] = r.value]
                     /\ pc' = [pc EXCEPT ![p] = "insert"]
                     /\ UNCHANGED result
    /\ UNCHANGED << docs, nextId, call, prev, document_hash, existing, deleted >>

\* `table('documents').insert(document_data).execute()` and the return
StoreInsert(p) ==
    /\ pc[p] = "insert"
    /\ issued' = [issued EXCEPT ![p].insert = @ + 1]
    /\ pc' = [pc EXCEPT ![p] = "ready"]
    /\ IF UniqueViolation(docs, document_hash[p])
       THEN /\ result' = [result EXCEPT ![p] = Raise("UniqueViolation")]
            /\ UNCHANGED << docs, nextId >>
       ELSE /\ docs' = docs \cup
                 { [id |-> nextId,
                    content |-> call[p].content,
                    metadata |-> Some(OrEmptyMapping(call[p].metadata)),
                    embedding |-> embedding[p],
                    source_type |-> call[p].source_type,
                    source_url |-> call[p].source_url,
                    document_hash |-> document_hash[p],
                    chunk_index |-> call[p].chunk_index,
                    created_at |-> nextId] }
            /\ nextId' = nextId + 1
            /\ result' = [result EXCEPT ![p] = Return(nextId)]
    /\ UNCHANGED << call, prev, document_hash, existing, embedding, response,
                    deleted >>

(* -------------------------- search_documents -------------------------- *)
\* entry and `query_embedding = await self.create_embedding(query)`
SearchEmbed(p, query, limit, threshold, source_type) ==
    /\ Begin(p, [op |-> "search", query |-> query, limit |-> limit,
                 threshold |-> threshold, source_type |-> source_type])
    /\ \E answer \in GeminiResponses :
         LET r == CreateEmbedding(query, answer)
         IN  /\ response' = [response EXCEPT ![p] = answer]
             /\ issued' = [issued EXCEPT ![p] = [NoRequests EXCEPT !.embed = 1]]
             /\ IF r.kind = "raise"
                THEN /\ result' = [result EXCEPT ![p] = r]
                     /\ pc' = pc
                     /\ embedding' = [embedding EXCEPT ![p] = NoEmbedding]
                ELSE /\ result' = [result EXCEPT ![p] = Pending]
                     /\ pc' = [pc EXCEPT ![p] = "rpc"]
                     /\ embedding' = [embedding EXCEPT ![p] = r.value]
    /\ document_hash' = [document_hash EXCEPT ![p] = Sha256(<<>>)]
    /\ existing' = [existing EXCEPT ![p] = <<>>]
    /\ UNCHANGED << docs, nextId, deleted >>

\* `rpc('match_documents', {...}).execute()` and the mapping of its rows; the
\* source_type filter goes into sql_query, which is never sent
SearchRpc(p) ==
    /\ pc[p] = "rpc"
    /\ LET params == RpcParams(embedding[p], call[p].threshold, call[p].limit)
       IN  \E data \in MatchDocuments(docs, params.query_embedding,
                                      params.match_threshold, params.match_count) :
             result' = [result EXCEPT ![p] =
                 IF HasData(data)
                 THEN Return([i \in 1..Len(data) |-> SearchResultOf(data[i])])
                 ELSE Return(<<>>)]
    /\ issued' = [issued EXCEPT ![p].rpc = @ + 1]
    /\ pc' = [pc EXCEPT ![p] = "ready"]
    /\ UNCHANGED << docs, nextId, call, prev, document_hash, existing,
                    embedding, response, deleted >>

(* ------------------- get_document_by_id, delete_document -------------- *)
\* the document get_document_by_id returns for a selected row
GetResultOf(row) == [row EXCEPT !.metadata = Some(OrEmptyMapping(row.metadata))]

GetDocumentById(p, document_id) ==
    /\ Begin(p, [op |-> "get", document_id |-> document_id])
    /\ LET data == SelectById(docs, document_id)
       IN  result' = [result EXCEPT ![p] =
               IF HasData(data) THEN Return(Some(GetResultOf(data[1])))
               ELSE Return(None)]
    /\ issued' = [issued EXCEPT ![p] = NoRequests]
    /\ document_hash' = [document_hash EXCEPT ![p] = Sha256(<<>>)]
    /\ existing' = [existing EXCEPT ![p] = <<>>]
    /\ embedding' = [embedding EXCEPT ![p] = NoEmbedding]
    /\ response' = [response EXCEPT ![p] = "none"]
    /\ UNCHANGED << docs, nextId, pc, deleted >>

\* a delete that leaves the table as it is
DeleteNothing(rows, document_id) == rows

\* `.delete().eq('id', document_id)`: the rows left in the table
DeleteById(rows, document_id) == { d \in rows : d.id # document_id }

DeleteDocument(p, document_id) ==
    /\ Begin(p, [op |-> "delete", document_id |-> document_id])
    /\ LET data == SelectById(docs, document_id)
       IN  /\ docs' = DeleteById(docs, document_id)
           /\ result' = [result EXCEPT ![p] = Return(DeleteResult(data))]
           /\ deleted' = IF DeleteResult(data) THEN deleted \cup {document_id}
                         ELSE deleted
    /\ issued' = [issued EXCEPT ![p] = [NoRequests EXCEPT !.delete = 1]]
    /\ document_hash' = [document_hash EXCEPT ![p] = Sha256(<<>>)]
    /\ existing' = [existing EXCEPT ![p] = <<>>]
    /\ embedding' = [embedding EXCEPT ![p] = NoEmbedding]
    /\ response' = [response EXCEPT ![p] = "none"]
    /\ UNCHANGED << nextId, pc >>

(* ---------------------------- list_documents -------------------------- *)
\* `.order('created_at', desc=True)`
RECURSIVE OrderByCreatedAtDesc(_)
OrderByCreatedAtDesc(rows) ==
    IF rows = {} THEN << >>
    ELSE LET newest == CHOOSE d \in rows :
                           \A e \in rows : e.created_at <= d.created_at
         IN  << newest >> \o OrderByCreatedAtDesc(rows \ {newest})

\* `.range(offset, offset + limit - 1)`: both ends inclusive, counted from 0
RowRange(s, first, last) ==
    SubSeq(s, first + 1, IF last + 1 < Len(s) THEN last + 1 ELSE Len(s))

\* the columns list_documents selects, metadata normalised
ListResultOf(row) ==
    [id |-> row.id, content |-> row.content,
     metadata |-> Some(OrEmptyMapping(row.metadata)),
     source_type |-> row.source_type, source_url |-> row.source_url,
     created_at |-> row.created_at]

ListDocuments(p, source_type, limit, offset) ==
    /\ Begin(p, [op |-> "list", source_type |-> source_type, limit |-> limit,
                 offset |-> offset])
    /\ LET selected == IF source_type # None
                       THEN { d \in docs : d.source_type = source_type[1] }
                       ELSE docs
           data == RowRange(OrderByCreatedAtDesc(selected), offset,
                            offset + limit - 1)
       IN  result' = [result EXCEPT ![p] =
               Return([i \in 1..Len(data) |-> ListResultOf(data[i])])]
    /\ issued' = [issued EXCEPT ![p] = NoRequests]
    /\ document_hash' = [document_hash EXCEPT ![p] = Sha256(<<>>)]
    /\ existing' = [existing EXCEPT ![p] = <<>>]
    /\ embedding' = [embedding EXCEPT ![p] = NoEmbedding]
    /\ response' = [response EXCEPT ![p] = "none"]
    /\ UNCHANGED << docs, nextId, pc, deleted >>

(* --------------------------- specifications --------------------------- *)
\* callers storing and deleting concurrently against one table, each store
\* with store_document's default metadata, source_type and chunk_index.  The
\* reading operations change nothing but their own caller's locals and are
\* left to SpecSeq
Next ==
    \E p \in Procs :
        \/ /\ \E content \in Contents, source_url \in SourceUrls :
                StoreFind(p, content, DefaultOptions.metadata,
                          DefaultOptions.source_type, source_url,
                          DefaultOptions.chunk_index)
           /\ UNCHANGED << prev, restOfRag >>
        \/ StoreEmbed(p) /\ UNCHANGED restOfRag
        \/ StoreInsert(p) /\ UNCHANGED restOfRag
        \/ /\ \E document_id \in DocumentIds : DeleteDocument(p, document_id)
           /\ UNCHANGED << prev, restOfRag >>

Spec == Init /\ [][Next]_vars

\* what a caller that makes its calls one after the other knows, on entering
\* store_document, of the call it made just before: nothing unless that was a
\* store_document call too, else its content, source_url and outcome
Remember(p) ==
    prev' = [prev EXCEPT ![p] =
        IF call[p].op = "store" /\ call'[p].op = "store"
        THEN [call |-> [op |-> "store", content |-> call[p].content,
                        source_url |-> call[p].source_url],
              result |-> result[p]]
        ELSE [call |-> NoCall, result |-> Pending]]

\* one caller making its calls one after the other
NextSeq ==
    \/ /\ \E content \in Contents, source_url \in SourceUrls, o \in StoreOptions :
            StoreFind(1, content, o.metadata, o.source_type, source_url,
                      o.chunk_index)
       /\ Remember(1)
       /\ UNCHANGED restOfRag
    \/ StoreEmbed(1) /\ UNCHANGED restOfRag
    \/ StoreInsert(1) /\ UNCHANGED restOfRag
    \/ /\ \E query \in Queries, limit \in 0..MaxLimit, threshold \in Thresholds,
             source_type \in SourceTypeFilters :
            SearchEmbed(1, query, limit, threshold, source_type)
       /\ Remember(1)
       /\ UNCHANGED restOfRag
    \/ SearchRpc(1) /\ UNCHANGED restOfRag
    \/ /\ \E document_id \in DocumentIds : GetDocumentById(1, document_id)
       /\ Remember(1)
       /\ UNCHANGED restOfRag
    \/ /\ \E document_id \in DocumentIds : DeleteDocument(1, document_id)
       /\ Remember(1)
       /\ UNCHANGED restOfRag
    \/ /\ \E source_type \in SourceTypeFilters, limit \in 1..MaxLimit,
             offset \in ListOffsets :
            ListDocuments(1, source_type, limit, offset)
       /\ Remember(1)
       /\ UNCHANGED restOfRag

SpecSeq == Init /\ [][NextSeq]_vars

\* what a caller that stores and deletes leaves alone, the rows it has deleted
\* apart
restOfRestore == << chunkVars, ingestVars, singletonVars, streamVars >>

\* one caller storing and deleting documents, one call after the other; the
\* rows its deletes took from the table are kept aside
NextRestore ==
    \/ /\ \E content \in Contents, source_url \in SourceUrls :
            StoreFind(1, content, DefaultOptions.metadata,
                      DefaultOptions.source_type, source_url,
                      DefaultOptions.chunk_index)
       /\ UNCHANGED << prev, restOfRag >>
    \/ StoreEmbed(1) /\ UNCHANGED restOfRag
    \/ StoreInsert(1) /\ UNCHANGED restOfRag
    \/ /\ \E document_id \in DocumentIds :
            /\ DeleteDocument(1, document_id)
            /\ removed' = removed \cup { d \in docs : d.id = document_id }
       /\ UNCHANGED << prev, restOfRestore >>

SpecRestore == Init /\ [][NextRestore]_vars

(* ---------------------- _split_text_into_chunks ----------------------- *)
MaxTextLen == 4

\* the characters of the short texts: a letter, a sentence ending, and the
\* newline, which is both a sentence ending and whitespace
Newline == "\n"
Alphabet == { "a", ".", Newline }
SentenceEndings == { ".", "!", "?", Newline }
Whitespace == { " ", Newline }

\* how far past the window rfind looks, and the number of chunks the loop
\* stops above
SentenceLookahead == 50
MaxChunks == 1000

\* every text of up to MaxTextLen characters
ShortTexts == UNION { [1..n -> Alphabet] : n \in 0..MaxTextLen }

\* n times the character c
Repeat(c, n) == [i \in 1..n |-> c]

\* texts longer than a window and its look-ahead together: a sentence ending
\* inside the first window; the same with a second one past the window but
\* inside the look-ahead; blanks around letters; and a text of letters only
\* that has more windows than MaxChunks
LongTexts ==
    { << "a", "." >> \o Repeat("a", SentenceLookahead + 4),
      << "a", "." >> \o Repeat("a", SentenceLookahead) \o << "." >>
          \o Repeat("a", 3),
      << " ", "a", " " >> \o Repeat("a", SentenceLookahead) \o << " ", "a" >>,
      Repeat("a", MaxChunks + 2) }

Texts == ShortTexts \cup LongTexts

\* the max_chunk_size of the calls; sentence endings only cut a window of
\* three characters or more
WindowSizes == { 3 }

\* calls whose overlap is the whole window: of letters, of newlines, of blanks
WholeWindowOverlaps ==
    UNION { { << Repeat("a", size + 1), size, size >>,
              << Repeat(Newline, size + 1), size, size >>,
              << Repeat(" ", size + 1), size, size >> } : size \in WindowSizes }

\* a call whose first sentence ends within `overlap` characters of the start
\* of the text, so that the second window starts before the text does
EarlySentenceCalls ==
    { << << "a", ".", "b", "c", "d", "e", "f", "g", "h", "i" >>, 7, 3 >> }

\* the calls made: << text, max_chunk_size, overlap >>
SplitCalls ==
    UNION { Texts \X {size} \X (0..(size - 1)) : size \in WindowSizes }
        \cup WholeWindowOverlaps \cup EarlySentenceCalls

\* Python: a slice bound i of a sequence of n items, negative bounds counting
\* from the end
SliceIndex(i, n) ==
    IF i < 0 THEN (IF i + n < 0 THEN 0 ELSE i + n)
    ELSE (IF i > n THEN n ELSE i)

\* s[:j] in place of s[i:j]
SliceFromZero(s, i, j) == SubSeq(s, 1, SliceIndex(j, Len(s)))

\* Python: s[i:j]
Slice(s, i, j) == SubSeq(s, SliceIndex(i, Len(s)) + 1, SliceIndex(j, Len(s)))

\* Python: s.rfind(c, i, j) for a single character c
RFind(s, c, i, j) ==
    LET hits == { k \in SliceIndex(i, Len(s)) .. SliceIndex(j, Len(s)) - 1 :
                    s[k + 1] = c }
    IN  IF hits = {} THEN -1
        ELSE CHOOSE k \in hits : \A h \in hits : h <= k

\* Python: s.strip()
Strip(s) ==
    LET kept == { k \in 1..Len(s) : s[k] \notin Whitespace }
    IN  IF kept = {} THEN << >>
        ELSE SubSeq(s, CHOOSE k \in kept : \A h \in kept : k <= h,
                       CHOOSE k \in kept : \A h \in kept : h <= k)

\* best_end after the loop over sentence_endings
BestEnd(t, from, end) ==
    LET ends == {end} \cup
            { RFind(t, c, from, end + SentenceLookahead) + 1 :
                c \in { e \in SentenceEndings :
                          LET pos == RFind(t, e, from, end + SentenceLookahead)
                          IN  pos # -1 /\ pos > from } }
    IN  CHOOSE b \in ends : \A e \in ends : b <= e

\* end, once the window [start, start + max_chunk_size) is fitted to a sentence
WindowEnd(t, from, size) ==
    IF from + size < Len(t) THEN BestEnd(t, from, from + size)
    ELSE from + size

\* the next window starting where this one ended
NextStartAtEnd(end, lap) == end

\* `start = end - overlap`
NextStart(end, lap) == end - lap

\* the loop's exit test after a pass
LoopBreaks(from, n, t) == from >= Len(t) \/ n > MaxChunks

\* a text shorter than max_chunk_size only
FitsStrictly(t, size) == Len(t) < size

\* `len(text) <= max_chunk_size`
Fits(t, size) == Len(t) <= size

\* the call, up to the loop: a text that fits is returned as it is
SplitCall(t, size, lap) ==
    /\ at = "idle"
    /\ text' = t
    /\ max_chunk_size' = size
    /\ overlap' = lap
    /\ chunks' = << >>
    /\ start' = 0
    /\ IF Fits(t, size)
       THEN /\ returned' = Return(<< t >>)
            /\ at' = "done"
       ELSE /\ returned' = Pending
            /\ at' = "while"

\* `while start < len(text)`
SplitWhile ==
    /\ at = "while"
    /\ IF start < Len(text)
       THEN /\ at' = "body"
            /\ UNCHANGED returned
       ELSE /\ at' = "done"
            /\ returned' = Return(chunks)
    /\ UNCHANGED << text, max_chunk_size, overlap, start, chunks >>

\* one pass through the loop body
SplitBody ==
    /\ at = "body"
    /\ LET end == WindowEnd(text, start, max_chunk_size)
           chunk == Strip(Slice(text, start, end))
           grown == IF chunk # << >> THEN Append(chunks, chunk) ELSE chunks
       IN  /\ chunks' = grown
           /\ start' = NextStart(end, overlap)
           /\ IF LoopBreaks(NextStart(end, overlap), Len(grown), text)
              THEN /\ at' = "done"
                   /\ returned' = Return(grown)
              ELSE /\ at' = "while"
                   /\ UNCHANGED returned
    /\ UNCHANGED << text, max_chunk_size, overlap >>

\* one call of the chunker
NextChunk ==
    \/ /\ \E c \in SplitCalls : SplitCall(c[1], c[2], c[3])
       /\ UNCHANGED restOfChunk
    \/ SplitWhile /\ UNCHANGED restOfChunk
    \/ SplitBody /\ UNCHANGED restOfChunk

SpecChunk == Init /\ [][NextChunk]_vars

\* the same under a scheduler that keeps running the loop
SpecChunkFair == SpecChunk /\ WF_chunkVars(SplitWhile) /\ WF_chunkVars(SplitBody)

(* -------------------------- DocumentIngester -------------------------- *)
\* Python mappings, as sets of << key, value >> pairs with one pair per key
DictHas(d, k) == \E kv \in d : kv[1] = k
DictGet(d, k, default) ==
    IF DictHas(d, k) THEN (CHOOSE kv \in d : kv[1] = k)[2] ELSE default

\* `del d[k]`
DictDel(d, k) == { kv \in d : kv[1] # k }

\* `d[k] = v`
DictSet(d, k, v) == DictDel(d, k) \cup { << k, v >> }

\* `{**a, **b}`
DictMerge(a, b) == { kv \in a : ~DictHas(b, kv[1]) } \cup b

\* `x if metadata else y`: None and the empty mapping are both false
Truthy(metadata) == metadata # None /\ metadata # Some({})

\* `doc_metadata = metadata or {}` and the writes to doc_metadata that follow:
\* a mapping that is not empty is the caller's own object, so the caller's
\* mapping reads as doc_metadata does; None and {} give way to a new mapping
Aliased(metadata, doc_metadata) ==
    IF Truthy(metadata) THEN Some(doc_metadata) ELSE metadata

\* ingest_text's doc_metadata
TextMetadata(metadata) ==
    DictSet(OrEmptyMapping(metadata), "ingestion_method", "text")

\* the same arguments with the metadata ingest_text was given left out
IngestTextRequestBare(content, source_type, source_url, metadata) ==
    [content |-> content,
     metadata |-> Some(TextMetadata(None)),
     source_type |-> source_type,
     source_url |-> source_url,
     chunk_index |-> DefaultOptions.chunk_index]

\* the arguments ingest_text hands to store_document; chunk_index is not among
\* them, so store_document takes its default
IngestTextRequest(content, source_type, source_url, metadata) ==
    [content |-> content,
     metadata |-> Some(TextMetadata(metadata)),
     source_type |-> source_type,
     source_url |-> source_url,
     chunk_index |-> DefaultOptions.chunk_index]

\* chunk_metadata with chunk_index counted from 1
ChunkMetadataFromOne(base_metadata, n, cs) ==
    DictSet(DictSet(DictSet(base_metadata, "chunk_index", n + 1),
                    "total_chunks", Len(cs)),
            "chunk_size", Len(cs[n + 1]))

\* chunk_metadata of the chunk at position n (from 0) of cs
ChunkMetadata(base_metadata, n, cs) ==
    DictSet(DictSet(DictSet(base_metadata, "chunk_index", n),
                    "total_chunks", Len(cs)),
            "chunk_size", Len(cs[n + 1]))

\* ingest_large_text's defaults
DefaultMaxChunkSize == 1000
DefaultOverlap == 200

\* the texts ingest_large_text is called with, as << content, max_chunk_size,
\* overlap >>: two chunks, a chunk cut at a sentence ending, the same chunk
\* twice, and a text the defaults leave whole
LargeTextCalls ==
    { << Repeat("a", 4), 3, 1 >>,
      << << "a", ".", "a", "a" >>, 3, 0 >>,
      << Repeat("a", 6), 3, 0 >>,
      << Repeat("a", 2), DefaultMaxChunkSize, DefaultOverlap >> }

\* the PDF files: the text of each page, as PdfReader extracts it; a file of
\* one short page, and one of two pages longer together than the default
\* max_chunk_size
PdfPath == << "f" >>
LargePdfPath == << "g" >>
MissingPdfPath == << "h" >>
PdfPaths == { PdfPath, LargePdfPath, MissingPdfPath }
PdfPages(file_path) ==
    IF file_path = PdfPath THEN << << "a" >> >>
    ELSE << Repeat("a", 600), Repeat("a", 600) >>

\* `text_content += page.extract_text() + "\n"` over the pages
RECURSIVE PdfText(_)
PdfText(pages) ==
    IF pages = << >> THEN << >>
    ELSE Head(pages) \o << Newline >> \o PdfText(Tail(pages))

\* `source_url or file_path`
SourceUrlOr(source_url, file_path) ==
    IF OrEmpty(source_url) # << >> THEN source_url ELSE Some(file_path)

\* ingest_pdf's doc_metadata
PdfMetadata(metadata, file_path) ==
    DictSet(DictSet(OrEmptyMapping(metadata), "original_format", "pdf"),
            "file_path", file_path)

\* JSON texts: an array of values, an object of members in the order written,
\* a string, or a text that is no JSON
JsonObject(members) == [type |-> "object", members |-> members]
JsonString(chars) == [type |-> "string", chars |-> chars]
JsonArray(items) == [type |-> "array", items |-> items]
NotJson == [type |-> "invalid"]

JsonTexts ==
    { JsonArray(<< JsonObject(<< << "content", << "a" >> >>, << "tag", 1 >> >>),
                   JsonObject(<< << "content", << "b" >> >> >>) >>),
      JsonArray(<< JsonObject(<< << "tag", 1 >> >>),
                   JsonString(<< "x" >>),
                   JsonObject(<< << "content", << "a" >> >> >>) >>),
      JsonArray(<< JsonObject(<< << "content", << "a" >> >>,
                                 << "ingestion_method", "manual" >> >>) >>),
      JsonObject(<< << "content", << "a" >> >>, << "tag", 1 >> >>),
      JsonObject(<< >>),
      JsonString(<< "x" >>),
      NotJson }

\* json.loads of an object: a mapping, the last member of a key taken
MembersToDict(members) ==
    { members[k] : k \in { n \in 1..Len(members) :
                             \A m \in (n + 1)..Len(members) :
                                 members[m][1] # members[n][1] } }

\* json.loads of a value that is no array
LoadsValue(j) ==
    IF j.type = "object" THEN [type |-> "dict", value |-> MembersToDict(j.members)]
    ELSE [type |-> "str", value |-> j.chars]

\* json.loads
JsonLoads(j) ==
    IF j.type = "invalid" THEN Raise("JSONDecodeError")
    ELSE IF j.type = "array"
    THEN Return([type |-> "list",
                 value |-> [k \in 1..Len(j.items) |-> LoadsValue(j.items[k])]])
    ELSE Return(LoadsValue(j))

\* Python: str() of a mapping, for the mappings the calls pass without content
PyStr(d) == CASE d = {} -> << "{", "}" >>

\* the same request with the content key left in the metadata
JsonItemRequestWithContent(item, source_type, metadata) ==
    LET merged == IF Truthy(metadata) THEN DictMerge(metadata[1], item) ELSE item
    IN  IngestTextRequest(DictGet(item, "content", << >>), source_type, None,
                          Some(merged))

\* the store request ingest_json_documents makes for a mapping of an array
JsonItemRequest(item, source_type, metadata) ==
    LET merged == IF Truthy(metadata) THEN DictMerge(metadata[1], item) ELSE item
    IN  IngestTextRequest(DictGet(item, "content", << >>), source_type, None,
                          Some(DictDel(merged, "content")))

\* the store request it makes for a top-level mapping
JsonObjectRequest(data, source_type, metadata) ==
    LET merged == IF Truthy(metadata) THEN DictMerge(metadata[1], data) ELSE data
        content == IF DictHas(data, "content") THEN DictGet(data, "content", << >>)
                   ELSE PyStr(data)
    IN  IngestTextRequest(content, source_type, None,
                          Some(DictDel(merged, "content")))

\* markdown.markdown and BeautifulSoup.get_text, for one-line texts: a heading
\* loses its marker, any other line is its own text
MarkdownText(content) ==
    IF Len(content) > 2 /\ SubSeq(content, 1, 2) = << "#", " " >>
    THEN SubSeq(content, 3, Len(content))
    ELSE content

\* ingest_markdown's doc_metadata
MarkdownMetadata(metadata, content) ==
    DictSet(DictSet(OrEmptyMapping(metadata), "original_format", "markdown"),
            "original_content", content)

\* the store request ingest_markdown makes, through ingest_text
MarkdownRequest(content, source_url, metadata) ==
    IngestTextRequest(MarkdownText(content), "markdown", source_url,
                      Some(MarkdownMetadata(metadata, content)))

\* the pages behind the URLs ingest_webpage is given: the status of the
\* answer, the title element if the page has one, and the lines of its body
WebUrl == << "w" >>
BareUrl == << "x" >>
GoneUrl == << "y" >>
WebUrls == { WebUrl, BareUrl, GoneUrl }
Fetch(url) ==
    IF url = WebUrl
    THEN [status |-> 200, title |-> Some(<< "t" >>),
          lines |-> << << " ", "a" >>, << " " >>, << "b" >> >>]
    ELSE IF url = BareUrl
    THEN [status |-> 200, title |-> None, lines |-> << << "a" >> >>]
    ELSE [status |-> 404, title |-> None, lines |-> << >>]

\* the lines of a page's text, the title's among them
PageLines(page) ==
    (IF page.title = None THEN << >> ELSE << page.title[1] >>) \o page.lines

\* `' '.join(chunk for chunk in chunks if chunk)` over the stripped lines
RECURSIVE JoinStripped(_, _)
JoinStripped(lines, separator) ==
    IF lines = << >> THEN << >>
    ELSE LET first == Strip(Head(lines))
             rest == JoinStripped(Tail(lines), separator)
         IN  IF first = << >> THEN rest
             ELSE IF rest = << >> THEN first
             ELSE first \o << separator >> \o rest

\* soup.get_text() cleaned up
WebpageText(page) == JoinStripped(PageLines(page), " ")

\* markdownify of the page
Markdownify(page) == JoinStripped(PageLines(page), Newline)

\* ingest_webpage's doc_metadata
WebpageMetadata(metadata, url, page) ==
    DictSet(DictSet(DictSet(OrEmptyMapping(metadata), "original_format", "html"),
                    "markdown_content", Markdownify(page)),
            "title", IF page.title # None THEN page.title[1] ELSE url)

\* the files of URLs ingest_websites_from_file is given, as their lines
UrlFilePath == << "p" >>
OneUrlFilePath == << "q" >>
MissingUrlFilePath == << "r" >>
UrlFilePaths == { UrlFilePath, OneUrlFilePath, MissingUrlFilePath }
UrlFileLines(file_path) ==
    IF file_path = UrlFilePath
    THEN << << "u", Newline >>, << " ", Newline >>, << " ", "v", "/" >> >>
    ELSE << << "u", Newline >> >>

\* `urls = [line.strip() for line in f if line.strip()]`
RECURSIVE Urls(_)
Urls(lines) ==
    IF lines = << >> THEN << >>
    ELSE IF Strip(Head(lines)) = << >> THEN Urls(Tail(lines))
    ELSE << Strip(Head(lines)) >> \o Urls(Tail(lines))

\* what crawl_tool.run does for a URL: it returns the page as markdown, or it
\* raises
Crawl(url) == { Return(<< "#", " " >> \o url), Raise("Exception") }

\* the name of the file a URL's markdown is saved under: netloc and path with
\* every character outside [a-zA-Z0-9_.-] replaced, for URLs without a scheme
SafeChars == { "u", "v", "w", "." }
OutputDir == << "o" >>
Filename(url) ==
    [k \in 1..Len(url) |-> IF url[k] \in SafeChars THEN url[k] ELSE "_"]
        \o << ".md" >>
OutputFilePath(url) == OutputDir \o << "/" >> \o Filename(url)

\* the metadata ingest_websites_from_file passes on for a URL
WebsiteMetadata(metadata, url) ==
    DictMerge(OrEmptyMapping(metadata),
              { << "original_file", OutputFilePath(url) >> })

\* no loop with an except clause: the first exception ends the call
LoopCatchesNothing(op) == FALSE

\* whether the loop of a call has an except clause around its body, so that
\* it goes on after an exception in an iteration
LoopCatches(op) == op = "websites"

\* the values the loop of the call in hand runs over: the chunks, the parsed
\* array, or the URLs; a top-level mapping is its own single item
Items ==
    IF job.op \in {"large_text", "pdf"}
    THEN (IF returned.kind = "return" THEN returned.value ELSE << >>)
    ELSE IF job.op = "json"
    THEN (IF job.data.type = "list" THEN job.data.value
          ELSE IF job.data.type = "dict" THEN << job.data >> ELSE << >>)
    ELSE IF job.op = "websites" THEN job.urls
    ELSE << >>

\* store_document entered with a request, which joins the requests made
Store(request) ==
    /\ StoreFind(1, request.content, request.metadata, request.source_type,
                 request.source_url, request.chunk_index)
    /\ requests' = Append(requests, request)
    /\ stage' = "await"

\* a call starts: its locals are fresh, and the caller's mapping is as given
Enter(c, metadata) ==
    /\ stage = "idle"
    /\ job' = [c EXCEPT !.given = metadata]
    /\ position' = 0
    /\ doc_ids' = << >>

\* the call in hand, with the metadata mapping the caller gave as it then read
Called(op, fields) == [op |-> op, given |-> None] @@ fields

\* ingest_text called on its own
IngestText(content, source_type, source_url, metadata) ==
    /\ Enter(Called("text", << >>), metadata)
    /\ mapping' = Aliased(metadata, TextMetadata(metadata))
    /\ Store(IngestTextRequest(content, source_type, source_url, metadata))
    /\ UNCHANGED << prev, chunkVars, outcome, files >>

\* ingest_markdown
IngestMarkdown(content, source_url, metadata) ==
    /\ Enter(Called("markdown", << >>), metadata)
    /\ mapping' = Aliased(metadata,
                          TextMetadata(Some(MarkdownMetadata(metadata, content))))
    /\ Store(MarkdownRequest(content, source_url, metadata))
    /\ UNCHANGED << prev, chunkVars, outcome, files >>

\* ingest_webpage: a status other than 200 raises before doc_metadata is made
IngestWebpage(url, metadata) ==
    LET page == Fetch(url)
    IN  /\ Enter(Called("webpage", << >>), metadata)
        /\ IF page.status # 200
           THEN /\ stage' = "done"
                /\ outcome' = Raise("Exception")
                /\ mapping' = metadata
                /\ UNCHANGED << ragVars, requests >>
           ELSE /\ mapping' = Aliased(metadata,
                        TextMetadata(Some(WebpageMetadata(metadata, url, page))))
                /\ Store(IngestTextRequest(WebpageText(page), "webpage", Some(url),
                             Some(WebpageMetadata(metadata, url, page))))
                /\ UNCHANGED << prev, outcome >>
        /\ UNCHANGED << chunkVars, files >>

\* ingest_large_text up to the call of the chunker
IngestLargeText(content, source_type, source_url, metadata, size, lap) ==
    /\ Enter(Called("large_text", [source_type |-> source_type,
                                   source_url |-> source_url,
                                   base_metadata |-> OrEmptyMapping(metadata)]),
             metadata)
    /\ mapping' = metadata
    /\ SplitCall(content, size, lap)
    /\ stage' = "loop"
    /\ UNCHANGED << ragVars, requests, outcome, files >>

\* ingest_pdf up to the call of the chunker inside ingest_large_text
IngestPdf(file_path, source_url, metadata) ==
    /\ IF file_path = MissingPdfPath
       THEN /\ Enter(Called("pdf", << >>), metadata)
            /\ mapping' = metadata
            /\ stage' = "done"
            /\ outcome' = Raise("FileNotFoundError")
            /\ UNCHANGED chunkVars
       ELSE /\ Enter(Called("pdf", [source_type |-> "pdf",
                                    source_url |-> SourceUrlOr(source_url, file_path),
                                    base_metadata |-> PdfMetadata(metadata, file_path)]),
                     metadata)
            /\ mapping' = Aliased(metadata, PdfMetadata(metadata, file_path))
            /\ SplitCall(PdfText(PdfPages(file_path)), DefaultMaxChunkSize,
                         DefaultOverlap)
            /\ stage' = "loop"
            /\ UNCHANGED outcome
    /\ UNCHANGED << ragVars, requests, files >>

\* the loop of ingest_large_text, for the chunk at i: up to store_document
IngestChunk ==
    /\ stage = "loop"
    /\ job.op \in {"large_text", "pdf"}
    /\ at = "done"
    /\ position < Len(Items)
    /\ Store(IngestTextRequest(Items[position + 1], job.source_type, job.source_url,
                               Some(ChunkMetadata(job.base_metadata, position, Items))))
    /\ UNCHANGED << prev, chunkVars, job, position, doc_ids, outcome, mapping,
                    files >>

\* ingest_json_documents up to its loop
IngestJsonDocuments(json_content, source_type, metadata) ==
    LET data == JsonLoads(json_content)
    IN  /\ IF data.kind = "raise"
           THEN /\ Enter(Called("json", [data |-> [type |-> "none"],
                                         source_type |-> source_type,
                                         metadata |-> metadata]), metadata)
                /\ stage' = "done"
                /\ outcome' = data
           ELSE /\ Enter(Called("json", [data |-> data.value,
                                         source_type |-> source_type,
                                         metadata |-> metadata]), metadata)
                /\ stage' = "loop"
                /\ UNCHANGED outcome
        /\ mapping' = metadata
        /\ UNCHANGED << ragVars, chunkVars, requests, files >>

\* its loop, for the item in turn: a mapping goes to store_document, any other
\* value is passed over
IngestJsonItem ==
    /\ stage = "loop"
    /\ job.op = "json"
    /\ position < Len(Items)
    /\ IF Items[position + 1].type = "dict"
       THEN /\ Store(IF job.data.type = "list"
                     THEN JsonItemRequest(Items[position + 1].value, job.source_type,
                                          job.metadata)
                     ELSE JsonObjectRequest(Items[position + 1].value, job.source_type,
                                            job.metadata))
            /\ UNCHANGED << prev, position >>
       ELSE /\ position' = position + 1
            /\ UNCHANGED << ragVars, requests, stage >>
    /\ UNCHANGED << chunkVars, job, doc_ids, outcome, mapping, files >>

\* ingest_websites_from_file up to its loop
IngestWebsitesFromFile(file_path, metadata) ==
    /\ IF file_path = MissingUrlFilePath
       THEN /\ Enter(Called("websites", [urls |-> << >>, metadata |-> metadata]),
                     metadata)
            /\ stage' = "done"
            /\ outcome' = Raise("FileNotFoundError")
       ELSE /\ Enter(Called("websites", [urls |-> Urls(UrlFileLines(file_path)),
                                         metadata |-> metadata]), metadata)
            /\ stage' = "loop"
            /\ UNCHANGED outcome
    /\ mapping' = metadata
    /\ UNCHANGED << ragVars, chunkVars, requests, files >>

\* its loop, for the URL in turn: the crawl, the file of the page's markdown
\* and ingest_markdown up to store_document; an exception on the way is
\* logged and the loop goes on with the next URL
IngestUrl ==
    /\ stage = "loop"
    /\ job.op = "websites"
    /\ position < Len(Items)
    /\ LET url == Items[position + 1]
       IN  \E scraped_content \in Crawl(url), written \in BOOLEAN :
               IF scraped_content.kind = "return" /\ written
               THEN /\ files' = DictSet(files, OutputFilePath(url),
                                        scraped_content.value)
                    /\ Store(MarkdownRequest(scraped_content.value, Some(url),
                                 Some(WebsiteMetadata(job.metadata, url))))
                    /\ UNCHANGED << prev, position, outcome >>
               ELSE /\ IF LoopCatches(job.op)
                       THEN /\ position' = position + 1
                            /\ UNCHANGED << stage, outcome >>
                       ELSE /\ stage' = "done"
                            /\ outcome' = IF scraped_content.kind = "raise"
                                          THEN scraped_content
                                          ELSE Raise("OSError")
                            /\ UNCHANGED position
                    /\ UNCHANGED << ragVars, requests, files >>
    /\ UNCHANGED << chunkVars, job, doc_ids, mapping >>

\* store_document has come back: its id joins doc_ids, or is what the call
\* returns; its exception ends the call, or the iteration of a loop that
\* catches it
IngestCollect ==
    /\ stage = "await"
    /\ pc[1] = "ready"
    /\ IF result[1].kind = "return" /\ job.op \in {"large_text", "pdf", "json",
                                                  "websites"}
       THEN /\ doc_ids' = Append(doc_ids, result[1].value)
            /\ position' = position + 1
            /\ stage' = "loop"
            /\ UNCHANGED outcome
       ELSE IF result[1].kind = "raise" /\ LoopCatches(job.op)
       THEN /\ position' = position + 1
            /\ stage' = "loop"
            /\ UNCHANGED << doc_ids, outcome >>
       ELSE /\ outcome' = result[1]
            /\ stage' = "done"
            /\ UNCHANGED << doc_ids, position >>
    /\ UNCHANGED << ragVars, chunkVars, job, requests, mapping, files >>

\* `return doc_ids`
IngestReturn ==
    /\ stage = "loop"
    /\ job.op \in {"json", "websites"} \/ at = "done"
    /\ position = Len(Items)
    /\ outcome' = Return(doc_ids)
    /\ stage' = "done"
    /\ UNCHANGED << ragVars, chunkVars, job, position, doc_ids, requests, mapping,
                    files >>

\* the metadata the ingesting calls are given
IngestMetadata == { None, Some({}), Some({<<"test", TRUE>>}) }

\* one call of the ingester against an empty table
NextIngest ==
    \/ \E content \in Contents, metadata \in IngestMetadata :
           IngestText(content, DefaultOptions.source_type, None, metadata)
           /\ UNCHANGED otherVars
    \/ \E content \in Contents, metadata \in IngestMetadata :
           IngestMarkdown(content, None, metadata) /\ UNCHANGED otherVars
    \/ \E url \in WebUrls, metadata \in IngestMetadata :
           IngestWebpage(url, metadata) /\ UNCHANGED otherVars
    \/ \E c \in LargeTextCalls, metadata \in IngestMetadata :
           IngestLargeText(c[1], DefaultOptions.source_type, None, metadata,
                           c[2], c[3])
           /\ UNCHANGED otherVars
    \/ \E file_path \in PdfPaths, source_url \in SourceUrls,
          metadata \in IngestMetadata :
           IngestPdf(file_path, source_url, metadata) /\ UNCHANGED otherVars
    \/ \E json_content \in JsonTexts, metadata \in IngestMetadata :
           IngestJsonDocuments(json_content, "json", metadata)
           /\ UNCHANGED otherVars
    \/ \E file_path \in UrlFilePaths, metadata \in IngestMetadata :
           IngestWebsitesFromFile(file_path, metadata) /\ UNCHANGED otherVars
    \/ SplitWhile /\ stage = "loop" /\ UNCHANGED restOfChunk
    \/ SplitBody /\ stage = "loop" /\ UNCHANGED restOfChunk
    \/ IngestChunk /\ UNCHANGED otherVars
    \/ IngestJsonItem /\ UNCHANGED otherVars
    \/ IngestUrl /\ UNCHANGED otherVars
    \/ StoreEmbed(1) /\ UNCHANGED restOfRag
    \/ StoreInsert(1) /\ UNCHANGED restOfRag
    \/ IngestCollect /\ UNCHANGED otherVars
    \/ IngestReturn /\ UNCHANGED otherVars

SpecIngest == Init /\ [][NextIngest]_vars

(* --------------------------- get_rag_manager --------------------------- *)
\* what the callers of get_rag_manager leave alone
restOfSingleton == << ragVars, chunkVars, ingestVars, removed, streamVars >>

\* a thread calls get_rag_manager
GetCall(t) ==
    /\ where[t] = "idle"
    /\ where' = [where EXCEPT ![t] = "test"]
    /\ UNCHANGED << rag_manager, instances, made, got >>

\* `if _rag_manager is None:`
GetTest(t) ==
    /\ where[t] = "test"
    /\ where' = [where EXCEPT ![t] = IF rag_manager = None THEN "construct"
                                     ELSE "return"]
    /\ UNCHANGED << rag_manager, instances, made, got >>

\* `RAGManager()`: a new instance
GetConstruct(t) ==
    /\ where[t] = "construct"
    /\ instances' = instances + 1
    /\ made' = [made EXCEPT ![t] = Some(instances + 1)]
    /\ where' = [where EXCEPT ![t] = "assign"]
    /\ UNCHANGED << rag_manager, got >>

\* `_rag_manager = ...`
GetAssign(t) ==
    /\ where[t] = "assign"
    /\ rag_manager' = made[t]
    /\ where' = [where EXCEPT ![t] = "return"]
    /\ UNCHANGED << instances, made, got >>

\* `return _rag_manager`
GetReturn(t) ==
    /\ where[t] = "return"
    /\ got' = [got EXCEPT ![t] = rag_manager]
    /\ where' = [where EXCEPT ![t] = "idle"]
    /\ UNCHANGED << rag_manager, instances, made >>

\* threads of one process calling get_rag_manager again and again, a thread
\* giving way to another between any two steps
NextSingleton ==
    \E t \in Threads :
        \/ GetCall(t) /\ UNCHANGED restOfSingleton
        \/ GetTest(t) /\ UNCHANGED restOfSingleton
        \/ GetConstruct(t) /\ UNCHANGED restOfSingleton
        \/ GetAssign(t) /\ UNCHANGED restOfSingleton
        \/ GetReturn(t) /\ UNCHANGED restOfSingleton

SpecSingleton == Init /\ [][NextSingleton]_vars

(* ----------------------------- /chat/stream --------------------------- *)
\* what a /chat/stream response leaves alone
restOfStream == << ragVars, chunkVars, ingestVars, removed, singletonVars >>

\* the tokens a language model produces
Tokens == { "x", "y" }

\* the events sse_generator yields
Delta(token) == [type |-> "delta", text |-> token]
Error == [type |-> "error"]
Done == [type |-> "done"]

\* sse_generator up to its loop: the queue, the handler, and the agent run
\* started as a task on a thread of its own
StreamOpen ==
    /\ gen = "idle"
    /\ queue' = << >>
    /\ count' = 0
    /\ task' = "running"
    /\ gen' = "get"
    /\ UNCHANGED << events, llm, calls, produced >>

\* the agent run calls the language model (on_llm_start does nothing)
OnLlmStart ==
    /\ task = "running"
    /\ ~llm
    /\ calls < MaxLlmCalls
    /\ llm' = TRUE
    /\ UNCHANGED << queue, count, gen, events, task, calls, produced >>

\* on_llm_new_token
OnLlmNewToken(token) ==
    /\ task = "running"
    /\ llm
    /\ Len(produced) < MaxTokens
    /\ count' = count + 1
    /\ queue' = Append(queue, Some(token))
    /\ produced' = Append(produced, token)
    /\ UNCHANGED << gen, events, task, llm, calls >>

\* on_llm_end: the call of the language model is over
OnLlmEnd ==
    /\ task = "running"
    /\ llm
    /\ queue' = Append(queue, None)
    /\ llm' = FALSE
    /\ calls' = calls + 1
    /\ UNCHANGED << count, gen, events, task, produced >>

\* on_llm_error: the call of the language model failed, and the run with it
OnLlmError ==
    /\ task = "running"
    /\ llm
    /\ queue' = Append(queue, None)
    /\ llm' = FALSE
    /\ task' = "raised"
    /\ UNCHANGED << count, gen, events, calls, produced >>

\* the agent run raises outside a call of the language model: before the
\* first, or in a tool between two
AgentRaises ==
    /\ task = "running"
    /\ ~llm
    /\ task' = "raised"
    /\ UNCHANGED << queue, count, gen, events, llm, calls, produced >>

\* the agent run returns, after a call of the language model that asked for
\* no tool
AgentReturns ==
    /\ task = "running"
    /\ ~llm
    /\ calls >= 1
    /\ task' = "returned"
    /\ UNCHANGED << queue, count, gen, events, llm, calls, produced >>

\* one turn of the generator's loop: `token = await q.get()` waits for an
\* item; None leaves the loop, a token is yielded as a delta event
GenGet ==
    /\ gen = "get"
    /\ queue # << >>
    /\ queue' = Tail(queue)
    /\ IF Head(queue) = None
       THEN /\ gen' = "await"
            /\ UNCHANGED events
       ELSE /\ events' = Append(events, Delta(Head(queue)[1]))
            /\ UNCHANGED gen
    /\ UNCHANGED << count, task, llm, calls, produced >>

\* `await task`: an exception of the run is yielded as an error event
GenAwait ==
    /\ gen = "await"
    /\ task \in { "returned", "raised" }
    /\ events' = IF task = "raised" THEN Append(events, Error) ELSE events
    /\ gen' = "last"
    /\ UNCHANGED << queue, count, task, llm, calls, produced >>

\* the done event
GenDone ==
    /\ gen = "last"
    /\ events' = Append(events, Done)
    /\ gen' = "done"
    /\ UNCHANGED << queue, count, task, llm, calls, produced >>

\* the steps of the agent run, and those of the generator
AgentStep ==
    \/ OnLlmStart
    \/ \E token \in Tokens : OnLlmNewToken(token)
    \/ OnLlmEnd
    \/ OnLlmError
    \/ AgentRaises
    \/ AgentReturns
GenStep == GenGet \/ GenAwait \/ GenDone

\* one /chat/stream response
NextStream ==
    \/ StreamOpen /\ UNCHANGED restOfStream
    \/ OnLlmStart /\ UNCHANGED restOfStream
    \/ \E token \in Tokens : OnLlmNewToken(token) /\ UNCHANGED restOfStream
    \/ OnLlmEnd /\ UNCHANGED restOfStream
    \/ OnLlmError /\ UNCHANGED restOfStream
    \/ AgentRaises /\ UNCHANGED restOfStream
    \/ AgentReturns /\ UNCHANGED restOfStream
    \/ GenGet /\ UNCHANGED restOfStream
    \/ GenAwait /\ UNCHANGED restOfStream
    \/ GenDone /\ UNCHANGED restOfStream

SpecStream == Init /\ [][NextStream]_vars

\* the same with the event loop and the agent's thread both kept running
SpecStreamFair ==
    SpecStream /\ WF_streamVars(GenStep) /\ WF_streamVars(AgentStep)

(* ------------------------------ claims -------------------------------- *)
\* a store_document call of p that has come to its end
StoreEnded(p) == pc[p] = "ready" /\ call[p].op = "store"

\* the rows holding a fingerprint
RowsWithHash(h) == { d \in docs : d.document_hash = h }

\* C1: when a caller calls store_document twice in a row with the same content
\* and source_url and the first call returned an id, the second call returns
\* the same id and the table holds exactly one row with that fingerprint,
\* whatever the other arguments of the two calls
C1_SequentialIdempotence ==
    \A p \in Procs :
        ( /\ StoreEnded(p)
          /\ prev[p].call.op = "store"
          /\ prev[p].call.content = call[p].content
          /\ prev[p].call.source_url = call[p].source_url
          /\ prev[p].result.kind = "return" )
        => /\ result[p] = prev[p].result
           /\ Cardinality(RowsWithHash(document_hash[p])) = 1

\* a second identical store_document call, with other metadata, source_type
\* and chunk_index than the defaults, has returned after a first that returned
C1_Witness ==
    \E p \in Procs :
        /\ StoreEnded(p)
        /\ prev[p].call.op = "store"
        /\ prev[p].call.content = call[p].content
        /\ prev[p].call.source_url = call[p].source_url
        /\ prev[p].result.kind = "return"
        /\ result[p].kind = "return"
        /\ call[p].chunk_index = 1

\* C2: under every interleaving of concurrent store_document calls the table
\* never holds two rows with the same document_hash
C2_NoDuplicateHash ==
    \A d, e \in docs : d.document_hash = e.document_hash => d = e

\* two calls passed the dedup check for one fingerprint; one inserted its row
\* and the other's insert has been sent
C2_Witness ==
    \E p, q \in Procs :
        /\ p # q
        /\ StoreEnded(p) /\ StoreEnded(q)
        /\ document_hash[p] = document_hash[q]
        /\ existing[p] = <<>> /\ existing[q] = <<>>
        /\ issued[p].insert = 1 /\ issued[q].insert = 1
        /\ RowsWithHash(document_hash[p]) # {}

\* C3: a store_document call that sent its insert ends by returning an id: an
\* insert rejected by the unique constraint is answered with the id of the
\* row that is already there, never with an error
C3_RejectedInsertReturnsExistingId ==
    \A p \in Procs :
        (StoreEnded(p) /\ issued[p].insert > 0) => result[p].kind = "return"

\* C4: a store_document call whose dedup lookup finds a row is over with that
\* lookup: the step returns the found row's id, sends no embedding request and
\* no insert, and leaves the table as it was
C4_DedupShortCircuit ==
    [][ \A p \in Procs :
          ( /\ pc[p] = "ready"
            /\ call'[p].op = "store"
            /\ issued'[p] = NoRequests
            /\ existing'[p] # <<>> )
          => /\ pc'[p] = "ready"
             /\ result'[p] = Return(existing'[p][1].id)
             /\ docs' = docs ]_vars

\* a store_document call has found its fingerprint in the table
C4_Witness ==
    \E p \in Procs : StoreEnded(p) /\ existing[p] # <<>> /\ issued[p] = NoRequests

\* C5: when a caller stores (content_a, url) and next (content_b, url) with
\* content_a # content_b and both calls return, the two ids differ and are the
\* ids of two rows of the table
C5_ChangedContentNewRow ==
    \A p \in Procs :
        ( /\ StoreEnded(p)
          /\ prev[p].call.op = "store"
          /\ prev[p].call.source_url = call[p].source_url
          /\ prev[p].call.content # call[p].content
          /\ prev[p].result.kind = "return"
          /\ result[p].kind = "return" )
        => /\ result[p].value # prev[p].result.value
           /\ \E d, e \in docs :
                d.id = prev[p].result.value /\ e.id = result[p].value /\ d # e

\* two contents were stored one after the other under one source_url, the
\* second by an insert
C5_Witness ==
    \E p \in Procs :
        /\ StoreEnded(p)
        /\ prev[p].call.op = "store"
        /\ prev[p].call.source_url = call[p].source_url
        /\ prev[p].call.content # call[p].content
        /\ prev[p].result.kind = "return"
        /\ result[p].kind = "return"
        /\ issued[p].insert = 1

\* C6: the fingerprint store_document computes depends on the concatenation
\* content + source_url only, a missing source_url counting as the empty
\* string: it is the digest of the content alone when source_url is None, and
\* it equals the fingerprint of every stored row whose content + source_url
\* spells the same string, such as ("ab", None) and ("a", "b")
C6_FingerprintOfConcatenation ==
    \A p \in Procs :
        call[p].op = "store" =>
          /\ call[p].source_url = None =>
                document_hash[p] = Sha256(call[p].content)
          /\ \A d \in docs :
                (d.content \o OrEmpty(d.source_url)
                   = call[p].content \o OrEmpty(call[p].source_url))
                => d.document_hash = document_hash[p]

\* a store call found, by its fingerprint, a row stored under another content
\* and another source_url
C6_Witness ==
    \E p \in Procs : \E d \in docs :
        /\ StoreEnded(p)
        /\ d.content # call[p].content
        /\ d.source_url # call[p].source_url
        /\ existing[p] = << [id |-> d.id] >>

\* C7: when the embedding endpoint fails or answers without the 'embedding'
\* field, the call it served ends by raising that failure and sends neither an
\* insert nor a similarity search; and no row carries another vector than the
\* embedding of its content
C7_EmbeddingFailurePropagates ==
    /\ \A p \in Procs :
          response[p] \in {"malformed", "error"} =>
            /\ pc[p] = "ready"
            /\ result[p] = (IF response[p] = "malformed" THEN Raise("ValueError")
                            ELSE Raise("EmbeddingApiError"))
            /\ issued[p].insert = 0
            /\ issued[p].rpc = 0
    /\ \A d \in docs : d.embedding = EmbeddingModel(d.content)

\* a store_document call met a response without the 'embedding' field while the
\* table held a row
C7_Witness ==
    \E p \in Procs :
        /\ StoreEnded(p)
        /\ response[p] = "malformed"
        /\ docs # {}

\* a search_documents call of p that has returned
SearchReturned(p) ==
    pc[p] = "ready" /\ call[p].op = "search" /\ result[p].kind = "return"

\* C8: search_documents returns at most `limit` results, each scoring strictly
\* above the threshold, best first; and when its embedding succeeded and no
\* row scores above the threshold it returns the empty sequence
C8_SearchResults ==
    \A p \in Procs :
        /\ SearchReturned(p) =>
             LET r == result[p].value
             IN  /\ Len(r) <= call[p].limit
                 /\ \A i \in 1..Len(r) : r[i].similarity > call[p].threshold
                 /\ \A i, j \in 1..Len(r) :
                       i < j => r[i].similarity >= r[j].similarity
        /\ ( /\ pc[p] = "ready" /\ call[p].op = "search"
             /\ response[p] = "embedding"
             /\ \A d \in docs :
                  Similarity(d.embedding, EmbeddingModel(call[p].query))
                     <= call[p].threshold )
           => result[p] = Return(<<>>)

\* a search cut to its limit: one result returned while two rows score above
\* the threshold
C8_Witness ==
    \E p \in Procs :
        /\ SearchReturned(p)
        /\ Len(result[p].value) = 1
        /\ call[p].limit = 1
        /\ Cardinality({ d \in docs :
              Similarity(d.embedding, EmbeddingModel(call[p].query))
                 > call[p].threshold }) = 2

\* C9: every document a search with a source_type filter returns has that
\* source_type
C9_SourceTypeFilterApplied ==
    \A p \in Procs :
        (SearchReturned(p) /\ call[p].source_type # None) =>
            \A i \in 1..Len(result[p].value) :
                result[p].value[i].source_type = call[p].source_type[1]

\* the ids of the rows in the table
Ids(rows) == { d.id : d \in rows }

\* C10: a get_document_by_id for an id whose delete answered True returns
\* None, and delete_document answers True exactly when the table held a row
\* with the id
C10_DeleteThenGet ==
    [][ \A p \in Procs :
          /\ ( /\ pc[p] = "ready" /\ pc'[p] = "ready"
               /\ call'[p].op = "get"
               /\ call'[p].document_id \in deleted )
             => result'[p] = Return(None)
          /\ ( /\ pc[p] = "ready" /\ pc'[p] = "ready"
               /\ call'[p].op = "delete" )
             => /\ result'[p] \in {Return(TRUE), Return(FALSE)}
                /\ (result'[p] = Return(TRUE))
                     <=> (call'[p].document_id \in Ids(docs)) ]_vars

\* a get_document_by_id for a deleted id has returned None while the table
\* holds another row
C10_Witness ==
    \E p \in Procs :
        /\ pc[p] = "ready"
        /\ call[p].op = "get"
        /\ call[p].document_id \in deleted
        /\ result[p] = Return(None)
        /\ docs # {}

\* the fields of a row that store_document persists
Persisted(d) ==
    [content |-> d.content, metadata |-> d.metadata,
     source_type |-> d.source_type, source_url |-> d.source_url,
     document_hash |-> d.document_hash, chunk_index |-> d.chunk_index,
     embedding |-> d.embedding]

\* C11: whatever store, search, get, list or delete step is taken, a row that
\* is still in the table after the step has the persisted fields it had before
\* it; a store_document call that finds the fingerprint of its content and
\* source_url leaves the row's metadata and source_type as they were
C11_RowsImmutable ==
    [][ \A d \in docs : \A e \in docs' :
          e.id = d.id => Persisted(e) = Persisted(d) ]_vars

\* a store_document call has returned the id of a row stored before it under
\* another source_type and other metadata, and the row still has its own
C11_Witness ==
    /\ StoreEnded(1)
    /\ DedupHit(existing[1])
    /\ \E d \in docs :
         /\ result[1] = Return(d.id)
         /\ d.source_type # call[1].source_type
         /\ d.metadata # Some(OrEmptyMapping(call[1].metadata))

(* ----------------------- claims on the chunker ------------------------ *)
\* C12: every call of the chunker that enters its loop returns, whatever the
\* text and the overlap, provided the loop keeps being run
C12_Terminates == (at = "while") ~> (at = "done")

\* C13: the sequence the chunker returns has at most MaxChunks chunks
C13_AtMostMaxChunks ==
    at = "done" => Len(returned.value) <= MaxChunks

\* C14: a text of at most max_chunk_size characters is returned as the one
\* chunk of a one-element sequence, unstripped, whatever the overlap
C14_FittingTextReturnedWhole ==
    (at = "done" /\ Len(text) <= max_chunk_size)
        => returned = Return(<< text >>)

\* a text of whitespace only has been returned whole under a positive overlap
C14_Witness ==
    /\ at = "done"
    /\ Len(text) <= max_chunk_size
    /\ text # << >>
    /\ Strip(text) = << >>
    /\ overlap > 0
    /\ returned = Return(<< text >>)

\* c occurs in t as a run of consecutive characters
IsSubstring(c, t) ==
    \E k \in 0..(Len(t) - Len(c)) : SubSeq(t, k + 1, k + Len(c)) = c

\* C15: every chunk returned is a contiguous substring of the text, of at most
\* max_chunk_size + SentenceLookahead characters
C15_ChunksAreBoundedSubstrings ==
    at = "done" =>
        \A i \in 1..Len(returned.value) :
            /\ IsSubstring(returned.value[i], text)
            /\ Len(returned.value[i]) <= max_chunk_size + SentenceLookahead

\* a text longer than a window and its look-ahead has been split, its first
\* chunk cut after a sentence ending inside the window
C15_Witness ==
    /\ at = "done"
    /\ Len(text) > max_chunk_size + SentenceLookahead
    /\ Len(returned.value) > 1
    /\ returned.value[1] = << "a", "." >>

\* a text without sentence endings and without whitespace
Plain(t) == \A i \in 1..Len(t) : t[i] \notin SentenceEndings \cup Whitespace

\* the number of windows of size `size` that start every size - lap characters
\* in a text of n characters: the ceiling of n / (size - lap)
WindowCount(n, size, lap) == (n + (size - lap) - 1) \div (size - lap)

\* those windows, the k-th (from 0) being t[k*(size-lap) : k*(size-lap)+size]
Windows(t, size, lap) ==
    [j \in 1..WindowCount(Len(t), size, lap) |->
        Slice(t, (j - 1) * (size - lap), (j - 1) * (size - lap) + size)]

\* the calls C16 is about
PlainCall ==
    /\ Plain(text)
    /\ Len(text) > max_chunk_size
    /\ 0 <= overlap
    /\ overlap < max_chunk_size

\* C16 as stated: for a text longer than max_chunk_size without sentence
\* endings and whitespace and an overlap below max_chunk_size, the chunker
\* returns exactly the windows, one for every k with k*(size-overlap) below
\* the length of the text
C16_AllWindows ==
    (at = "done" /\ PlainCall)
        => returned = Return(Windows(text, max_chunk_size, overlap))

\* C16 amended: the same for the texts that have at most MaxChunks windows
C16_WindowsBelowCap ==
    (/\ at = "done"
     /\ PlainCall
     /\ WindowCount(Len(text), max_chunk_size, overlap) <= MaxChunks)
        => returned = Return(Windows(text, max_chunk_size, overlap))

\* such a text has been split into three windows or more that overlap
C16_Witness ==
    /\ at = "done"
    /\ PlainCall
    /\ overlap > 0
    /\ WindowCount(Len(text), max_chunk_size, overlap) <= MaxChunks
    /\ Len(returned.value) >= 3

(* ----------------------- claims on the ingester ----------------------- *)
\* the call in hand is an ingest_large_text call, made directly or by
\* ingest_pdf, whose chunker has returned
Chunked == job.op \in {"large_text", "pdf"} /\ at = "done"

\* C17: ingest_large_text, called directly or by ingest_pdf, makes its store
\* calls in chunker order, the call for the chunk at k (from 0) carrying the
\* chunk as content and chunk_index = k and total_chunks = the number of
\* chunks in its metadata, never more calls than chunks; and when it returns,
\* it has made one call per chunk and returns one id per chunk, the id at k
\* being that of the row holding the chunk at k
C17_OneStorePerChunk ==
    Chunked =>
        LET cs == returned.value
        IN  /\ Len(requests) <= Len(cs)
            /\ \A k \in 1..Len(requests) :
                 /\ requests[k].content = cs[k]
                 /\ << "chunk_index", k - 1 >> \in requests[k].metadata[1]
                 /\ << "total_chunks", Len(cs) >> \in requests[k].metadata[1]
            /\ outcome.kind = "return" =>
                 /\ Len(requests) = Len(cs)
                 /\ Len(outcome.value) = Len(cs)
                 /\ \A k \in 1..Len(cs) :
                      \E d \in docs : d.id = outcome.value[k] /\ d.content = cs[k]

\* ingest_pdf has returned the two ids of the two chunks of a PDF file
C17_Witness ==
    /\ job.op = "pdf"
    /\ at = "done"
    /\ Len(returned.value) = 2
    /\ outcome.kind = "return"
    /\ Len(outcome.value) = 2
    /\ outcome.value[1] # outcome.value[2]

\* C18: a row inserted while ingest_large_text is storing the chunk at i has
\* chunk_index = i
C18_ChunkIndexIsPosition ==
    [][ \A d \in docs' \ docs :
          job.op \in {"large_text", "pdf"} => d.chunk_index = position ]_vars

\* the call in hand ingests a JSON array
JsonList == job.op = "json" /\ job.data.type = "list"

\* the call in hand ingests a JSON array of mappings that each have a content,
\* no two the same
DistinctContents ==
    /\ JsonList
    /\ \A k \in 1..Len(Items) :
         /\ Items[k].type = "dict"
         /\ DictHas(Items[k].value, "content")
    /\ \A k, m \in 1..Len(Items) :
         k # m => DictGet(Items[k].value, "content", << >>)
                    # DictGet(Items[m].value, "content", << >>)

\* the row with an id
RowOf(id) == CHOOSE d \in docs : d.id = id

\* what C19 says of every key but a set of keys left aside: one row per
\* element and no other, stored in array order, with the element's content,
\* every other key of the element with its value, and no content key
ElementsStored(aside) ==
    /\ Len(outcome.value) = Len(Items)
    /\ Cardinality(docs) = Len(Items)
    /\ \A k \in 1..Len(Items) :
         /\ outcome.value[k] \in Ids(docs)
         /\ RowOf(outcome.value[k]).content
              = DictGet(Items[k].value, "content", << >>)
         /\ \A kv \in Items[k].value :
              kv[1] \notin aside \cup {"content"}
                  => kv \in RowOf(outcome.value[k]).metadata[1]
         /\ ~DictHas(RowOf(outcome.value[k]).metadata[1], "content")
    /\ \A k, m \in 1..Len(Items) :
         k < m => RowOf(outcome.value[k]).created_at
                    < RowOf(outcome.value[m]).created_at

WithContent ==
    { k \in 1..Len(Items) :
        Items[k].type = "dict" /\ DictHas(Items[k].value, "content") }

\* C20: ingesting a JSON array makes as many store calls, and returns as many
\* ids, as the array has elements with a content key
C20_OnlyElementsWithContentStored ==
    (JsonList /\ outcome.kind = "return") =>
        /\ Len(requests) = Cardinality(WithContent)
        /\ Len(outcome.value) = Cardinality(WithContent)

\* a call of the ingester that has come to its end
IngestEnded(op) == stage = "done" /\ job.op = op

\* the row a URL was stored as, if it was
RowsOfUrl(url) == { d \in docs : d.source_url = Some(url) }

\* the ids of the rows of the URLs that have one, in the order of the URLs
RECURSIVE IdsOfUrls(_)
IdsOfUrls(urls) ==
    IF urls = << >> THEN << >>
    ELSE IF RowsOfUrl(Head(urls)) = {} THEN IdsOfUrls(Tail(urls))
    ELSE << (CHOOSE d \in RowsOfUrl(Head(urls)) : TRUE).id >>
             \o IdsOfUrls(Tail(urls))

\* s can be had from t by leaving elements out
RECURSIVE IsSubsequence(_, _)
IsSubsequence(s, t) ==
    IF s = << >> THEN TRUE
    ELSE IF t = << >> THEN FALSE
    ELSE IF Head(s) = Head(t) THEN IsSubsequence(Tail(s), Tail(t))
    ELSE IsSubsequence(s, Tail(t))

\* C21: ingest_websites_from_file, given a file that exists, takes every URL
\* of the file in file order whatever fails for a URL on the way, and returns
\* the ids of exactly the URLs that were ingested, in file order
C21_BulkUrlsSkipFailures ==
    (IngestEnded("websites") /\ outcome # Raise("FileNotFoundError")) =>
        /\ position = Len(job.urls)
        /\ IsSubsequence([k \in 1..Len(requests) |-> requests[k].source_url[1]],
                         job.urls)
        /\ outcome = Return(IdsOfUrls(job.urls))
        /\ Len(outcome.value) <= Len(job.urls)

\* the first URL of two failed and the second was ingested
C21_Witness ==
    /\ IngestEnded("websites")
    /\ Len(job.urls) = 2
    /\ RowsOfUrl(job.urls[1]) = {}
    /\ outcome.kind = "return"
    /\ Len(outcome.value) = 1
    /\ RowOf(outcome.value[1]).source_url = Some(job.urls[2])

\* C22: under any interleaving of threads calling get_rag_manager, RAGManager()
\* is instantiated at most once and every caller receives the same instance
C22_OneInstance ==
    /\ instances <= 1
    /\ \A t, u \in Threads : (got[t] # None /\ got[u] # None) => got[t] = got[u]

\* a pass of the loop body whose slice is empty once stripped
EmptyPass ==
    /\ at = "body"
    /\ at' # "body"
    /\ Strip(Slice(text, start, WindowEnd(text, start, max_chunk_size))) = << >>

\* C23: a pass of the chunker's loop whose slice is empty after stripping
\* appends nothing to chunks and leaves start strictly greater than it was
C23_EmptySliceAdvances ==
    [][EmptyPass => (chunks' = chunks /\ start' > start)]_vars

\* the positions (from 0) of c in t that lie in [lo, hi)
Occurrences(t, c, lo, hi) ==
    { k \in 0..(Len(t) - 1) : lo <= k /\ k < hi /\ t[k + 1] = c }

\* the sentence boundaries a window [from, from + size) can be cut at: one past
\* the last occurrence in [from, from + size + 50) of each of the four
\* characters, where that occurrence lies after from
Boundaries(t, from, size) ==
    { k + 1 : k \in { h \in from + 1..Len(t) - 1 :
                        \E c \in { ".", "!", "?", Newline } :
                            /\ h \in Occurrences(t, c, from, from + size + 50)
                            /\ \A g \in Occurrences(t, c, from, from + size + 50) :
                                   g <= h } }

\* C24: for a window with start + max_chunk_size < len(text), end is the least
\* of start + max_chunk_size and the boundaries of the window; it is never past
\* start + max_chunk_size, and a boundary never puts it at start + 1 or before
C24_EarliestBoundary ==
    (at = "body" /\ start + max_chunk_size < Len(text)) =>
        LET end == WindowEnd(text, start, max_chunk_size)
            ends == { start + max_chunk_size }
                        \cup Boundaries(text, start, max_chunk_size)
        IN  /\ end \in ends
            /\ \A b \in ends : end <= b
            /\ end <= start + max_chunk_size
            /\ end # start + max_chunk_size => end > start + 1

\* position k (from 1) of t lies inside an occurrence of c in t
Inside(t, k, c) ==
    \E from \in (k - Len(c))..(k - 1) :
        from >= 0 /\ from + Len(c) <= Len(t) /\ SubSeq(t, from + 1, from + Len(c)) = c

\* C25: when the chunker returns at most MaxChunks chunks for a text longer
\* than max_chunk_size with 0 <= overlap < max_chunk_size, every character of
\* the text that is not whitespace lies inside one of the chunks returned
C25_NoContentLost ==
    (/\ at = "done"
     /\ returned.kind = "return"
     /\ Len(returned.value) <= MaxChunks
     /\ Len(text) > max_chunk_size
     /\ 0 <= overlap /\ overlap < max_chunk_size) =>
        \A k \in 1..Len(text) :
            text[k] \notin Whitespace =>
                \E n \in 1..Len(returned.value) : Inside(text, k, returned.value[n])

\* what C26 says of an ingest_large_text call that has returned: no id twice,
\* as many rows as chunks, and the row of the id at k (from 0) carrying
\* chunk_index = k in its metadata
ChunkRowsApart ==
    /\ \A k, m \in 1..Len(outcome.value) :
           k # m => outcome.value[k] # outcome.value[m]
    /\ Cardinality(docs) = Len(Items)
    /\ \A k \in 1..Len(outcome.value) :
           /\ outcome.value[k] \in Ids(docs)
           /\ << "chunk_index", k - 1 >> \in RowOf(outcome.value[k]).metadata[1]

\* C26 as stated: after ingest_large_text has returned on an empty store, the
\* ids are pairwise distinct, the table has one row per chunk and the row of
\* each id has the id's position as chunk_index in its metadata, also when two
\* chunks have the same content
C26_OneRowPerChunk ==
    (Chunked /\ outcome.kind = "return") => ChunkRowsApart

\* C26: the same for a text no two chunks of which have the same content
C26_OneRowPerDistinctChunk ==
    (/\ Chunked
     /\ outcome.kind = "return"
     /\ \A k, m \in 1..Len(Items) : k # m => Items[k] # Items[m]) =>
        ChunkRowsApart

\* a text of two different chunks has been ingested
C26_Witness ==
    /\ Chunked
    /\ outcome.kind = "return"
    /\ Len(Items) = 2
    /\ Items[1] # Items[2]
    /\ Len(outcome.value) = 2
    /\ outcome.value[1] # outcome.value[2]

\* C27: after a call of ingest_text, ingest_markdown, ingest_webpage or
\* ingest_pdf, the metadata mapping the caller gave has exactly the keys and
\* values it had before the call
C27_CallerMetadataUntouched ==
    (stage = "done" /\ job.op \in {"text", "markdown", "webpage", "pdf"}) =>
        mapping = job.given

\* the rows deleted before that held the content and source_url of the store
\* call in hand
RemovedAlike ==
    { d \in removed :
        d.content = call[1].content /\ d.source_url = call[1].source_url }

\* C28: a store_document call that returns after a document with its content
\* and source_url was deleted does not return the deleted id; it leaves exactly
\* one row with its document_hash, and when its dedup check found nothing it
\* has computed the embedding and inserted a row newer than the deleted one
C28_StoreAfterDelete ==
    (StoreEnded(1) /\ result[1].kind = "return") =>
        \A d \in RemovedAlike :
            /\ result[1].value # d.id
            /\ Cardinality(RowsWithHash(document_hash[1])) = 1
            /\ existing[1] = << >> =>
                  /\ issued[1].embed = 1
                  /\ issued[1].insert = 1
                  /\ RowOf(result[1].value).created_at > d.created_at

\* a document was stored, deleted and stored again
C28_Witness ==
    /\ StoreEnded(1)
    /\ result[1].kind = "return"
    /\ RemovedAlike # {}
    /\ existing[1] = << >>
    /\ issued[1].insert = 1

\* C29: every /chat/stream response that has started comes to its end, the
\* done event yielded, however the agent run ends
C29_StreamFinishes == (gen = "get") ~> (gen = "done")

\* the text of the delta events yielded, in order
RECURSIVE Deltas(_)
Deltas(es) ==
    IF es = << >> THEN << >>
    ELSE IF Head(es).type = "delta" THEN << Head(es).text >> \o Deltas(Tail(es))
    ELSE Deltas(Tail(es))

\* C30: when the done event has been yielded, every token the language model
\* produced during the run has been yielded as a delta event, in the order
\* produced, and no token is left in the queue
C30_EveryTokenEmitted ==
    gen = "done" =>
        /\ Deltas(events) = produced
        /\ \A k \in 1..Len(queue) : queue[k] = None

====
